---- MODULE Spec2Model ----
(***************************************************************************)
(* range2masks.c: conversion of a closed u32 interval [st, end] into TCAM  *)
(* (pattern, mask) entries, the choice between the direct rule and the     *)
(* reject/accept pair made by main, and mask2plen.                         *)
(*                                                                         *)
(* A u32 value is modelled as the set of the positions of its 1-bits       *)
(* (bit 0 is the least significant), so that all 2^32 values, including    *)
(* 0xffffffff, are representable and every C operator keeps its 32-bit     *)
(* width.  Each loop iteration of the source is one step of the model.     *)
(***************************************************************************)
EXTENDS Integers, FiniteSets, Sequences

\* ------------------------------------------------------------ bounds
\* start and end range over the values below 2^LowBits and over the
\* 2^HighBits values at the top of the domain (0xffffffff downward).
LowBits == 4
HighBits == 1

\* ------------------------------------------------------------ constants
U32Bits == 32
MAXENT == 32
SUCCESS == 0
FAILURE == -1

\* ------------------------------------------------------------ u32 operators
\* ~0
AllOnes == 0 .. (U32Bits - 1)
Zero == {}
\* the constant 1 (i = 1)
One == {0}

MinOf(S) == CHOOSE x \in S : \A y \in S : x <= y
MaxOf(S) == CHOOSE x \in S : \A y \in S : x >= y

\* a & b, a | b, a ^ b
And(a, b) == a \cap b
Or(a, b) == a \cup b
Xor(a, b) == (a \ b) \cup (b \ a)
\* x << 1 and x >> 1 on 32 bits (the bit shifted out is lost)
Shl1(x) == {k + 1 : k \in x} \cap AllOnes
Shr1(x) == {k - 1 : k \in x \ {0}}
\* unsigned a < b: the highest bit in which they differ is set in b
Lt(a, b) == LET d == Xor(a, b) IN d # {} /\ MaxOf(d) \in b
Ge(a, b) == ~Lt(a, b)
\* a - 1 modulo 2^32 (--patt, start - 1)
Dec(a) == IF a = {} THEN AllOnes
          ELSE LET k == MinOf(a) IN (a \ {k}) \cup (0 .. (k - 1))
\* patt | ((~patt) & (~mask)): the last address an entry matches
BlockEnd(p, msk) == Or(p, And(AllOnes \ p, AllOnes \ msk))

\* ------------------------------------------------------------ state
VARIABLES
    argc,       \* main: 3 (no option) or 4 (-optimize given)
    start,      \* main: parsed argv[1]
    end,        \* main: parsed argv[2]
    rules,      \* main: aclRule rules[3]
    st,         \* main: status returned by the last range2masks call
    out,        \* main: what is printed: "none", "Direct" or "Split"
    pc,         \* position in main / range2masks / mask2plen
    pRule,      \* range2masks: index in rules of the rule being filled
    rst,        \* range2masks: parameter st
    rend,       \* range2masks: parameter end
    patt,       \* range2masks: local patt
    mask,       \* range2masks: local mask
    i,          \* range2masks: local i
    pmask,      \* mask2plen: parameter mask
    m,          \* mask2plen: local m
    plen,       \* mask2plen: local plen
    ret         \* mask2plen: returned value ("none" before the return)

vars == <<argc, start, end, rules, st, out, pc, pRule, rst, rend, patt, mask, i,
          pmask, m, plen, ret>>

mainVars == <<argc, start, end>>
frameVars == <<pRule, rst, rend>>
maskVars == <<pmask, m, plen, ret>>

\* the endpoints the model feeds to main
LowValues == SUBSET (0 .. (LowBits - 1))
HighValues == {AllOnes \ s : s \in SUBSET (0 .. (HighBits - 1))}
Inputs == LowValues \cup HighValues

EmptyRule == [nEnt |-> 0, ent |-> << >>]

\* main, lines 257-281: the arguments are parsed, the three rules are emptied
Init ==
    /\ argc \in {3, 4}
    /\ start \in Inputs
    /\ end \in Inputs
    /\ rules = [k \in 0 .. 2 |-> EmptyRule]
    /\ st = SUCCESS
    /\ out = "none"
    /\ pc = "main"
    /\ pRule = 0
    /\ rst = Zero
    /\ rend = Zero
    /\ patt = Zero
    /\ mask = Zero
    /\ i = Zero
    /\ pmask = Zero
    /\ m = Zero
    /\ plen = 0
    /\ ret = "none"

\* ------------------------------------------------------------ range2masks
\* mutant: the st != 0 test of line 209 dropped
EndTooBigAnySt(s, e) == e = AllOnes
\* line 208-209: end == ~0 and st != 0
EndTooBig(s, e) == e = AllOnes /\ s # Zero
\* mutant: patt > st for patt >= st
ForCondStrict(p, s) == Lt(s, p)
\* line 217: the for condition patt >= st
ForCond(p, s) == Ge(p, s)
\* line 219: pRule->nEnt >= elementsOf(pRule->ent)
Full(n) == n >= MAXENT
\* mutant: the first loop never runs
StripNever(ii, p) == FALSE
\* mutant: the first loop clears bit 0 only
StripOnce(ii, p) == And(ii, p) # Zero /\ ii = One
\* line 230: while (i & patt)
StripCond(ii, p) == And(ii, p) # Zero
\* line 239: while (patt < st)
RetractCond(p, s) == Lt(p, s)
\* lines 241-242: patt |= i and mask |= i
RetractPatt(p, ii) == Or(p, ii)
\* mutant: mask |= i forgotten
RetractMaskKept(msk, ii) == msk
RetractMask(msk, ii) == Or(msk, ii)
\* mutant: the early return of line 247 removed
PattZeroNever(p) == FALSE
\* line 247: if (patt == 0)
PattZero(p) == p = Zero

\* return to main with status s
Return(s) ==
    /\ st' = s
    /\ pc' = "assert"

\* lines 208-214: end too big
R2M_TooBig ==
    /\ pc = "guard"
    /\ EndTooBig(rst, rend)
    /\ Return(FAILURE)
    /\ UNCHANGED <<mainVars, rules, out, frameVars, patt, mask, i, maskVars>>

\* lines 216-217: nEnt = 0, patt = end
R2M_Enter ==
    /\ pc = "guard"
    /\ ~EndTooBig(rst, rend)
    /\ rules' = [rules EXCEPT ![pRule] = EmptyRule]
    /\ patt' = rend
    /\ pc' = "for"
    /\ UNCHANGED <<mainVars, st, out, frameVars, mask, i, maskVars>>

\* line 217 false, line 251: the loop ends, return SUCCESS
R2M_Done ==
    /\ pc = "for"
    /\ ~ForCond(patt, rst)
    /\ Return(SUCCESS)
    /\ UNCHANGED <<mainVars, rules, out, frameVars, patt, mask, i, maskVars>>

\* lines 219-223: no room for another entry, return FAILURE
R2M_Full ==
    /\ pc = "for"
    /\ ForCond(patt, rst)
    /\ Full(rules[pRule].nEnt)
    /\ Return(FAILURE)
    /\ UNCHANGED <<mainVars, rules, out, frameVars, patt, mask, i, maskVars>>

\* lines 228-229: mask = ~0, i = 1
R2M_Body ==
    /\ pc = "for"
    /\ ForCond(patt, rst)
    /\ ~Full(rules[pRule].nEnt)
    /\ mask' = AllOnes
    /\ i' = One
    /\ pc' = "strip"
    /\ UNCHANGED <<mainVars, rules, st, out, frameVars, patt, maskVars>>

\* lines 230-234: one iteration of the first while loop
R2M_Strip ==
    /\ pc = "strip"
    /\ StripCond(i, patt)
    /\ patt' = Xor(patt, i)
    /\ i' = Shl1(i)
    /\ mask' = Shl1(mask)
    /\ UNCHANGED <<mainVars, rules, st, out, pc, frameVars, maskVars>>

\* line 230 false
R2M_StripEnd ==
    /\ pc = "strip"
    /\ ~StripCond(i, patt)
    /\ pc' = "retract"
    /\ UNCHANGED <<mainVars, rules, st, out, frameVars, patt, mask, i, maskVars>>

\* lines 239-243: one iteration of the second while loop
R2M_Retract ==
    /\ pc = "retract"
    /\ RetractCond(patt, rst)
    /\ i' = Shr1(i)
    /\ patt' = RetractPatt(patt, Shr1(i))
    /\ mask' = RetractMask(mask, Shr1(i))
    /\ UNCHANGED <<mainVars, rules, st, out, pc, frameVars, maskVars>>

\* line 239 false
R2M_RetractEnd ==
    /\ pc = "retract"
    /\ ~RetractCond(patt, rst)
    /\ pc' = "append"
    /\ UNCHANGED <<mainVars, rules, st, out, frameVars, patt, mask, i, maskVars>>

\* lines 244-249 and the --patt of line 217
R2M_Append ==
    /\ pc = "append"
    /\ rules' = [rules EXCEPT ![pRule] =
                    [nEnt |-> @.nEnt + 1,
                     ent |-> Append(@.ent, [patt |-> patt, mask |-> mask])]]
    /\ IF PattZero(patt)
       THEN /\ Return(SUCCESS)
            /\ UNCHANGED patt
       ELSE /\ patt' = Dec(patt)
            /\ pc' = "for"
            /\ UNCHANGED st
    /\ UNCHANGED <<mainVars, out, frameVars, mask, i, maskVars>>

\* ------------------------------------------------------------ main
\* mutant: the assertions compiled out
AssertDisabled(s) == TRUE
\* lines 293, 312, 314: assert(st == SUCCESS)
AssertHolds(s) == s = SUCCESS
\* mutant: <= for <
BetterOrEqual(r) == (r[1].nEnt + r[2].nEnt) <= r[0].nEnt
\* line 315
Better(r) == (r[1].nEnt + r[2].nEnt) < r[0].nEnt

Call(k, s, e) ==
    /\ pRule' = k
    /\ rst' = s
    /\ rend' = e
    /\ pc' = "guard"

\* line 292: range2masks(start, end, rules)
Main_Call0 ==
    /\ pc = "main"
    /\ Call(0, start, end)
    /\ UNCHANGED <<mainVars, rules, st, out, patt, mask, i, maskVars>>

\* lines 293, 312, 314: the assertion fails and the process aborts
Main_Abort ==
    /\ pc = "assert"
    /\ ~AssertHolds(st)
    /\ pc' = "abort"
    /\ UNCHANGED <<mainVars, rules, st, out, frameVars, patt, mask, i, maskVars>>

\* lines 294-300: no -optimize option
Main_NoOpt ==
    /\ pc = "assert"
    /\ AssertHolds(st)
    /\ pRule = 0
    /\ argc <= 3
    /\ out' = "Direct"
    /\ pc' = "exit"
    /\ UNCHANGED <<mainVars, rules, st, frameVars, patt, mask, i, maskVars>>

\* lines 301-307: start == 0
Main_StartZero ==
    /\ pc = "assert"
    /\ AssertHolds(st)
    /\ pRule = 0
    /\ argc > 3
    /\ start = Zero
    /\ out' = "Direct"
    /\ pc' = "exit"
    /\ UNCHANGED <<mainVars, rules, st, frameVars, patt, mask, i, maskVars>>

\* line 311: range2masks(0, start - 1, rules + 1)
Main_Call1 ==
    /\ pc = "assert"
    /\ AssertHolds(st)
    /\ pRule = 0
    /\ argc > 3
    /\ start # Zero
    /\ Call(1, Zero, Dec(start))
    /\ UNCHANGED <<mainVars, rules, st, out, patt, mask, i, maskVars>>

\* line 313: range2masks(0, end, rules + 2)
Main_Call2 ==
    /\ pc = "assert"
    /\ AssertHolds(st)
    /\ pRule = 1
    /\ Call(2, Zero, end)
    /\ UNCHANGED <<mainVars, rules, st, out, patt, mask, i, maskVars>>

\* lines 315-323: the better of the two is printed
Main_Choose ==
    /\ pc = "assert"
    /\ AssertHolds(st)
    /\ pRule = 2
    /\ out' = IF Better(rules) THEN "Split" ELSE "Direct"
    /\ pc' = "exit"
    /\ UNCHANGED <<mainVars, rules, st, frameVars, patt, mask, i, maskVars>>

Next ==
    \/ Main_Call0
    \/ R2M_TooBig
    \/ R2M_Enter
    \/ R2M_Done
    \/ R2M_Full
    \/ R2M_Body
    \/ R2M_Strip
    \/ R2M_StripEnd
    \/ R2M_Retract
    \/ R2M_RetractEnd
    \/ R2M_Append
    \/ Main_Abort
    \/ Main_NoOpt
    \/ Main_StartZero
    \/ Main_Call1
    \/ Main_Call2
    \/ Main_Choose

Spec == Init /\ [][Next]_vars

\* main is sequential: the step that is enabled is taken
FairSpec == Spec /\ WF_vars(Next)

\* ------------------------------------------------------------ mask2plen
\* The masks handed to mask2plen: the endpoints above, every contiguous
\* mask ~0 << k, and every contiguous mask with bit 0 set in addition.
ContiguousMasks == {k .. (U32Bits - 1) : k \in 0 .. U32Bits}
MaskInputs == Inputs \cup ContiguousMasks \cup {Or(c, One) : c \in ContiguousMasks}

\* line 102: m == mask (m is converted to unsigned for the comparison)
MaskFound(mm, msk) == mm = msk
\* line 101: plen > 0
PlenLeft(n) == n > 0

InitMask ==
    /\ argc = 3
    /\ start = Zero
    /\ end = Zero
    /\ rules = [k \in 0 .. 2 |-> EmptyRule]
    /\ st = SUCCESS
    /\ out = "none"
    /\ pc = "mask2plen"
    /\ pRule = 0
    /\ rst = Zero
    /\ rend = Zero
    /\ patt = Zero
    /\ mask = Zero
    /\ i = Zero
    /\ pmask \in MaskInputs
    /\ m = Zero
    /\ plen = 0
    /\ ret = "none"

r2mVars == <<argc, start, end, rules, st, out, pRule, rst, rend, patt, mask, i>>

\* lines 98-99: plen = 32, m = ~0
MP_Enter ==
    /\ pc = "mask2plen"
    /\ plen' = 32
    /\ m' = AllOnes
    /\ pc' = "mp_while"
    /\ UNCHANGED <<r2mVars, pmask, ret>>

\* lines 102-104: return plen
MP_Found ==
    /\ pc = "mp_while"
    /\ PlenLeft(plen)
    /\ MaskFound(m, pmask)
    /\ ret' = plen
    /\ pc' = "mp_done"
    /\ UNCHANGED <<r2mVars, pmask, m, plen>>

\* lines 105-106: m <<= 1, --plen.  m is a negative int here; the shift is
\* the two's-complement one every build of this code produces.
MP_Shift ==
    /\ pc = "mp_while"
    /\ PlenLeft(plen)
    /\ ~MaskFound(m, pmask)
    /\ m' = Shl1(m)
    /\ plen' = plen - 1
    /\ UNCHANGED <<r2mVars, pmask, ret, pc>>

\* line 108: the loop is over, return plen
MP_End ==
    /\ pc = "mp_while"
    /\ ~PlenLeft(plen)
    /\ ret' = plen
    /\ pc' = "mp_done"
    /\ UNCHANGED <<r2mVars, pmask, m, plen>>

NextMask ==
    \/ MP_Enter
    \/ MP_Found
    \/ MP_Shift
    \/ MP_End

SpecMask == InitMask /\ [][NextMask]_vars

\* ============================================================ properties
Le(a, b) == ~Lt(b, a)
\* range2masks has returned to main (rst, rend, pRule are its arguments)
Returned == pc = "assert"
Succeeded == Returned /\ st = SUCCESS
InLoop == pc \in {"for", "strip", "retract", "append"}

EntEnd(e) == BlockEnd(e.patt, e.mask)
\* msk is ~0 << k for some 0 <= k <= 32
Contiguous(msk) == \E k \in 0 .. U32Bits : msk = k .. (U32Bits - 1)
\* the number k of low 0-bits of a mask (32 for mask 0)
WildBits(msk) == IF msk = {} THEN U32Bits ELSE MinOf(msk)

\* the number a bit set below bit 31 stands for
RECURSIVE Val(_)
Val(x) == IF x = {} THEN 0 ELSE LET k == MinOf(x) IN 2 ^ k + Val(x \ {k})
Small(x) == x \subseteq 0 .. (LowBits - 1)

\* The blocks of r, read from the first entry to the last, tile [s, e] from
\* e downward: the first ends at e, each next one ends right below the
\* start of the one before, the last starts at s, none is empty.  For
\* intervals this is exactly: pairwise disjoint, with union {s, ..., e}.
Tiles(r, s, e) ==
    /\ r.nEnt >= 1
    /\ Len(r.ent) = r.nEnt
    /\ EntEnd(r.ent[1]) = e
    /\ r.ent[r.nEnt].patt = s
    /\ \A j \in 1 .. r.nEnt : Le(r.ent[j].patt, EntEnd(r.ent[j]))
    /\ \A j \in 1 .. (r.nEnt - 1) :
          /\ r.ent[j].patt # Zero
          /\ EntEnd(r.ent[j + 1]) = Dec(r.ent[j].patt)

\* The same, address by address, for an interval of small numbers.
Covers(r, s, e) ==
    LET B(j) == Val(r.ent[j].patt) .. Val(EntEnd(r.ent[j]))
    IN /\ \A j \in 1 .. r.nEnt : Small(EntEnd(r.ent[j]))
       /\ UNION {B(j) : j \in 1 .. r.nEnt} = Val(s) .. Val(e)
       /\ \A j, k \in 1 .. r.nEnt : j # k => B(j) \cap B(k) = {}

\* C1: when range2masks(st, end) with st <= end returns SUCCESS, the blocks
\* [p, p | (~p & ~m)] of its entries are pairwise disjoint and their union
\* is exactly {st, ..., end}.
C1_Coverage ==
    (Succeeded /\ Le(rst, rend)) =>
        /\ Tiles(rules[pRule], rst, rend)
        /\ Small(rend) => Covers(rules[pRule], rst, rend)

C1_Witness ==
    /\ Succeeded
    /\ rst # Zero
    /\ Lt(rst, rend)
    /\ rules[pRule].nEnt >= 4

\* C2 (as claimed): for st <= end accepted by the end == ~0 guard, the
\* capacity check is never reached with nEnt >= 32 and the call returns
\* SUCCESS.
C2_NeverFull ==
    (Le(rst, rend) /\ ~EndTooBig(rst, rend)) =>
        /\ ~(pc = "for" /\ ForCond(patt, rst) /\ Full(rules[pRule].nEnt))
        /\ Returned => st = SUCCESS

\* The least number of aligned power-of-two blocks that partition
\* {lo, ..., hi}: f[x] is that number for {x, ..., hi}, filled in from hi
\* downward by trying, at x, every block size 2^k with x a multiple of 2^k
\* and x + 2^k - 1 <= hi.
RECURSIVE MinTable(_, _, _, _)
MinTable(x, lo, hi, f) ==
    IF x < lo THEN f
    ELSE LET ks == {k \in 0 .. (U32Bits - 2) :
                        2 ^ k <= hi - x + 1 /\ x % (2 ^ k) = 0}
             best == 1 + MinOf({f[x + 2 ^ k] : k \in ks})
         IN MinTable(x - 1, lo, hi,
                     [y \in x .. (hi + 1) |-> IF y = x THEN best ELSE f[y]])
MinCover(lo, hi) == MinTable(hi, lo, hi, [y \in {hi + 1} |-> 0])[lo]

\* C3: on success the number of entries is the least number of aligned
\* power-of-two blocks that partition {st, ..., end} (reference cover over
\* the intervals of small numbers).
C3_Minimal ==
    (Succeeded /\ Le(rst, rend) /\ Small(rend)) =>
        rules[pRule].nEnt = MinCover(Val(rst), Val(rend))

C3_Witness ==
    /\ Succeeded
    /\ Small(rend)
    /\ rst # Zero
    /\ rules[pRule].nEnt >= 3
    /\ rules[pRule].nEnt < Val(rend) - Val(rst) + 1

\* C4: range2masks(0, 0xffffffff) returns SUCCESS with the one entry (0, 0);
\* range2masks(st, 0xffffffff) with st != 0 returns FAILURE and never enters
\* the loop.
C4_EndMax ==
    (pc # "main" /\ rend = AllOnes) =>
        IF rst = Zero
        THEN Returned =>
                /\ st = SUCCESS
                /\ rules[pRule] = [nEnt |-> 1,
                                   ent |-> <<[patt |-> Zero, mask |-> Zero]>>]
        ELSE /\ ~InLoop
             /\ rules[pRule] = EmptyRule
             /\ Returned => st = FAILURE

C4_Witness ==
    /\ Returned
    /\ rst = Zero
    /\ rend = AllOnes
    /\ rules[pRule].nEnt = 1

\* mask is ~0 << k and the low k bits of patt are 0
WellFormed(p, msk) == Contiguous(msk) /\ And(p, AllOnes \ msk) = Zero

\* C5: every appended entry has a mask ~0 << k (0 <= k <= 32) and a pattern
\* that is a multiple of 2^k; so has (patt, mask) after the first loop and
\* after every step of the second.
C5_Aligned ==
    /\ \A k \in 0 .. 2 : \A j \in 1 .. Len(rules[k].ent) :
          WellFormed(rules[k].ent[j].patt, rules[k].ent[j].mask)
    /\ pc \in {"retract", "append"} => WellFormed(patt, mask)

\* an entry is being appended after the second loop has run
C5_Witness ==
    /\ pc = "append"
    /\ And(i, patt) # Zero
    /\ WildBits(mask) >= 1
    /\ rules[pRule].nEnt >= 1

\* The aligned block of twice the size that holds the entry's block
\* goes below s or beyond e (a block of 2^32 addresses has no double).
Maximal(e, s, en) ==
    LET k == WildBits(e.mask)
    IN \/ k = U32Bits
       \/ Lt(e.patt \ {k}, s)
       \/ Lt(en, Or(e.patt, 0 .. k))

\* C6: every entry of a successful range2masks(st, end) is maximal.
C6_Maximal ==
    (Succeeded /\ Le(rst, rend)) =>
        \A j \in 1 .. rules[pRule].nEnt : Maximal(rules[pRule].ent[j], rst, rend)

\* one block is stopped by st, another one by end
C6_Witness ==
    /\ Succeeded
    /\ \E j \in 1 .. rules[pRule].nEnt :
          LET e == rules[pRule].ent[j] IN
          /\ WildBits(e.mask) \in 1 .. (U32Bits - 1)
          /\ Lt(e.patt \ {WildBits(e.mask)}, rst)
    /\ \E j \in 1 .. rules[pRule].nEnt :
          LET e == rules[pRule].ent[j] IN
          /\ WildBits(e.mask) \in 1 .. (U32Bits - 1)
          /\ Lt(rend, Or(e.patt, 0 .. WildBits(e.mask)))

\* C7: with the option, start == 0 prints the direct rule and computes no
\* split; start > 0 prints the split exactly when reject.count +
\* accept.count < direct.count, the reject rule being the decomposition of
\* [0, start - 1] and the accept rule that of [0, end], and the direct rule
\* otherwise (also on a tie).
C7_Selection ==
    /\ (argc > 3 /\ start = Zero) =>
          pRule = 0 /\ rules[1] = EmptyRule /\ rules[2] = EmptyRule
    /\ (argc > 3 /\ pc = "exit") =>
          IF start = Zero THEN out = "Direct"
          ELSE /\ Tiles(rules[1], Zero, Dec(start))
               /\ Tiles(rules[2], Zero, end)
               /\ IF rules[1].nEnt + rules[2].nEnt < rules[0].nEnt
                  THEN out = "Split" ELSE out = "Direct"

C7_Witness ==
    /\ pc = "exit"
    /\ argc > 3
    /\ out = "Split"

RetractSafe == (pc = "retract" /\ RetractCond(patt, rst)) => Shr1(i) # Zero
\* the cursor is decremented only when it is not 0
NoWrap == (pc = "append" /\ pc' = "for") => (patt # Zero /\ Lt(patt', patt))
\* with st == 0 the call ends on the entry whose pattern is 0
EndsOnZero ==
    (Succeeded /\ rst = Zero) =>
        /\ rules[pRule].nEnt >= 1
        /\ rules[pRule].ent[rules[pRule].nEnt].patt = Zero

\* C10: every call of range2masks returns; the second loop never runs with
\* a shift index that is or becomes 0 and stops with patt >= st; at most 32
\* entries are appended; with st == 0 the call returns on the entry with
\* patt == 0 and the cursor never wraps from 0 to 0xffffffff.
C10_Terminates ==
    /\ [](RetractSafe /\ EndsOnZero)
    /\ [](pc = "append" => Ge(patt, rst))
    /\ [](\A k \in 0 .. 2 : rules[k].nEnt <= MAXENT)
    /\ [][NoWrap]_vars
    /\ (pc = "guard") ~> Returned

\* range2masks(0, end) has returned with all 32 entries in use
C10_Witness ==
    /\ Succeeded
    /\ rst = Zero
    /\ rules[pRule].nEnt = MAXENT

\* C8 (as claimed): mask2plen returns a value < 0 for a mask that is not
\* contiguous and a prefix length >= 0 for a contiguous one only.
C8_NotAPrefix ==
    pc = "mp_done" => IF Contiguous(pmask) THEN ret >= 0 ELSE ret < 0

====
